---- MODULE Spec2Model ----
(***************************************************************************)
(* A model of imager's picture and frame buffers (imager/src/data.rs):     *)
(* Yuv420P (a planar YUV 4:2:0 byte buffer with its plane accessors), the  *)
(* packed-to-planar conversion front end, the numbered-file directory      *)
(* listing, and VideoBuffer (a shared, reference-counted frame list with   *)
(* one cursor per handle); and of imager-video's variants of the           *)
(* conversion and of the VideoBuffer constructor (imager-video/src/data.rs)*)
(***************************************************************************)
EXTENDS Integers, Sequences, FiniteSets, TLC

VARIABLES arcs, handles, ret

vars == <<arcs, handles, ret>>

(***************************************************************************)
(* Bounds of the model.                                                    *)
(***************************************************************************)
\* u32 is modelled as an unsigned word of WordBits bits.
WordBits == 5
\* largest side of a packed image handed to the conversion
MaxDim == 3
\* most pixels of a packed image handed to the conversion
MaxPixels == 6
\* largest width/height argument handed to open_yuv and to the accessors
MaxYuvDim == 6
\* longest raw byte buffer
MaxLen == 6
\* largest byte value
MaxByte == 1
\* most handles alive at once on one backing list
MaxHandles == 2
\* largest argument of set_cursor
MaxPos == 3
\* most entries in a directory
MaxFiles == 2

(***************************************************************************)
(* Program constants.                                                      *)
(***************************************************************************)
WEBP_MAX_DIMENSION == 16383

U32 == 2 ^ WordBits
Byte == 0 .. MaxByte

Min(a, b) == IF a < b THEN a ELSE b

\* F applied to the value of v, which is computed once
Let(v, F(_)) == CHOOSE r \in {F(x) : x \in {v}} : TRUE

\* all byte buffers of length at most n
ByteSeqs(n) == UNION {[1 .. k -> Byte] : k \in 0 .. n}

(***************************************************************************)
(* u32 arithmetic.  `oc` is the build's overflow-checks setting: with it   *)
(* an overflowing operation panics, without it the result wraps.           *)
(***************************************************************************)
u32_mul(a, b, oc) ==
    [panic |-> oc /\ a * b >= U32, val |-> (a * b) % U32]

u32_add(a, b, oc) ==
    [panic |-> oc /\ a + b >= U32, val |-> (a + b) % U32]

(***************************************************************************)
(* Yuv420P { width, height, data }                                         *)
(***************************************************************************)
Yuv420P(w, h, d) == [width |-> w, height |-> h, data |-> d]

luma_size(self, oc) == u32_mul(self.width, self.height, oc)

chroma_size(self, oc) ==
    LET m == u32_mul(self.width, self.height, oc)
    IN  [panic |-> m.panic, val |-> m.val \div 4]

expected_yuv420p_size(self, oc) ==
    LET l  == luma_size(self, oc)
        c  == chroma_size(self, oc)
        lc == u32_add(l.val, c.val, oc)
        expected_size == u32_add(lc.val, c.val, oc)
    IN  [panic |-> l.panic \/ c.panic \/ lc.panic \/ expected_size.panic,
         val   |-> Len(self.data) = expected_size.val]

\* the result of a call that either panics or returns a byte slice
Panicked == [panic |-> TRUE, val |-> <<>>]
Returned(s) == [panic |-> FALSE, val |-> s]

\* data.split_at(mid).1 : panics when mid > len
split_at_1(d, mid) ==
    IF mid > Len(d) THEN Panicked ELSE Returned(SubSeq(d, mid + 1, Len(d)))

\* d.chunks(size).nth(k) : panics when size = 0, None (<<>> of <<>>) when the
\* k-th chunk does not exist
chunks_nth(d, size, k) ==
    IF size = 0 THEN [panic |-> TRUE, some |-> FALSE, val |-> <<>>]
    ELSE IF k * size >= Len(d) THEN [panic |-> FALSE, some |-> FALSE, val |-> <<>>]
    ELSE [panic |-> FALSE, some |-> TRUE,
          val |-> SubSeq(d, k * size + 1, Min((k + 1) * size, Len(d)))]

Yuv420P_y(self, oc) ==
    LET e   == expected_yuv420p_size(self, oc)
        end == luma_size(self, oc)
    IN  IF e.panic \/ ~e.val THEN Panicked
        ELSE IF end.panic THEN Panicked
        ELSE IF end.val > Len(self.data) THEN Panicked
        ELSE Returned(SubSeq(self.data, 1, end.val))

Yuv420P_u(self, oc) ==
    LET e == expected_yuv420p_size(self, oc)
        l == luma_size(self, oc)
        c == chroma_size(self, oc)
    IN  IF e.panic \/ ~e.val THEN Panicked
        ELSE IF l.panic \/ c.panic THEN Panicked
        ELSE LET rest == split_at_1(self.data, l.val)
             IN  IF rest.panic THEN Panicked
                 ELSE LET chunk == chunks_nth(rest.val, c.val, 0)
                      IN  IF chunk.panic \/ ~chunk.some THEN Panicked
                          ELSE IF Len(chunk.val) # c.val THEN Panicked
                          ELSE Returned(chunk.val)

Yuv420P_v(self, oc) ==
    LET e == expected_yuv420p_size(self, oc)
        l == luma_size(self, oc)
        c == chroma_size(self, oc)
    IN  IF e.panic \/ ~e.val THEN Panicked
        ELSE IF l.panic \/ c.panic THEN Panicked
        ELSE LET rest == split_at_1(self.data, l.val)
             IN  IF rest.panic THEN Panicked
                 ELSE LET chunk == chunks_nth(rest.val, c.val, 1)
                      IN  IF chunk.panic \/ ~chunk.some THEN Panicked
                          ELSE IF Len(chunk.val) # c.val THEN Panicked
                          ELSE Returned(chunk.val)

(***************************************************************************)
(* Packed images: width, height and one value per pixel, pixels[<<x, y>>]. *)
(***************************************************************************)
Coords(w, h) == (0 .. w - 1) \X (0 .. h - 1)

DynamicImage(w, h, px) == [width |-> w, height |-> h, pixels |-> px]

\* image::DynamicImage::crop : the rectangle is clamped to the image, and
\* pixel (i, j) of the result is pixel (x + i, y + j) of the source
crop(source, x, y, width, height) ==
    LET cx == Min(x, source.width)
        cy == Min(y, source.height)
        ch == Min(height, source.height - cy)
        cw == Min(width, source.width - cx)
    IN  DynamicImage(cw, ch,
            [p \in Coords(cw, ch) |-> source.pixels[<<cx + p[1], cy + p[2]>>]])

\* a variant that trims only when both sides are odd
ensure_even_reslution_both_odd(source) ==
    LET width       == source.width
        height      == source.height
        even_width  == (width % 2) = 0
        even_height == (height % 2) = 0
    IN  IF (~even_width) /\ (~even_height)
        THEN crop(source, 0, 0, width - 1, height - 1)
        ELSE source

ensure_even_reslution(source) ==
    LET width       == source.width
        height      == source.height
        even_width  == (width % 2) = 0
        even_height == (height % 2) = 0
    IN  IF (~even_width) \/ (~even_height)
        THEN LET new_width  == IF ~even_width THEN width - 1 ELSE width
                 new_height == IF ~even_height THEN height - 1 ELSE height
             IN  crop(source, 0, 0, new_width, new_height)
        ELSE source

(***************************************************************************)
(* The planes libwebp leaves in the picture after the import and the       *)
(* sharp ARGB->YUVA conversion: y_stride = width, uv_stride = width / 2.   *)
(* The filter itself is the library's; the model keeps one luma value per  *)
(* pixel and one chroma pair per 2x2 block.                                *)
(***************************************************************************)
picture_y(source, y_size) ==
    [i \in 1 .. y_size |->
        source.pixels[<<(i - 1) % source.width, (i - 1) \div source.width>>]]

picture_u(source, uv_size) ==
    [i \in 1 .. uv_size |->
        LET uv_stride == source.width \div 2
        IN  source.pixels[<<2 * ((i - 1) % uv_stride), 2 * ((i - 1) \div uv_stride)>>]]

picture_v(source, uv_size) ==
    [i \in 1 .. uv_size |->
        LET uv_stride == source.width \div 2
        IN  source.pixels[<<2 * ((i - 1) % uv_stride) + 1,
                            2 * ((i - 1) \div uv_stride) + 1>>]]

NoYuv == Yuv420P(0, 0, <<>>)

\* `webp_ok`: every call into libwebp (init, import, conversion) reports
\* success; a failure trips an assert.  WebPPictureImportRGB allocates the
\* picture and reports failure for a picture with a zero side.
convert_to_yuv_using_webp(src, webp_ok, oc) ==
    LET source == ensure_even_reslution(src)
        width  == source.width
        height == source.height
    IN  IF ~(width < WEBP_MAX_DIMENSION) THEN [panic |-> TRUE, val |-> NoYuv]
        ELSE IF ~(height < WEBP_MAX_DIMENSION) THEN [panic |-> TRUE, val |-> NoYuv]
        ELSE IF ~(webp_ok /\ width > 0 /\ height > 0)
             THEN [panic |-> TRUE, val |-> NoYuv]
        ELSE LET y_size  == width * height
                 uv_size == (width * height) \div 4
                 data    == picture_y(source, y_size)
                              \o picture_u(source, uv_size)
                              \o picture_v(source, uv_size)
                 result  == Yuv420P(width, height, data)
                 e       == expected_yuv420p_size(result, oc)
             IN  IF e.panic \/ ~e.val THEN [panic |-> TRUE, val |-> NoYuv]
                 ELSE [panic |-> FALSE, val |-> result]

\* Result<Yuv420P, ()> or a panic
Outcome(o, v) == [outcome |-> o, val |-> v]

Yuv420P_from_image(source, webp_ok, oc) ==
    LET r == convert_to_yuv_using_webp(source, webp_ok, oc)
    IN  IF r.panic THEN Outcome("panic", NoYuv) ELSE Outcome("Ok", r.val)

(***************************************************************************)
(* imager-video's conversion.  It takes the source as it is: libwebp gives *)
(* the picture y_stride = width and uv_stride = (width + 1) / 2, and the   *)
(* chroma sample of a block that sticks out of the image is taken from the *)
(* last column or row.                                                     *)
(***************************************************************************)
image_convert_pixels_using_webp(source, webp_ok, oc) ==
    LET width  == source.width
        height == source.height
    IN  IF ~(width < WEBP_MAX_DIMENSION) THEN [panic |-> TRUE, val |-> NoYuv]
        ELSE IF ~(height < WEBP_MAX_DIMENSION) THEN [panic |-> TRUE, val |-> NoYuv]
        ELSE IF ~(webp_ok /\ width > 0 /\ height > 0)
             THEN [panic |-> TRUE, val |-> NoYuv]
        ELSE LET y_stride  == width
                 uv_stride == (width + 1) \div 2
             IN  IF y_stride # width THEN [panic |-> TRUE, val |-> NoYuv]
                 ELSE IF uv_stride # width \div 2 THEN [panic |-> TRUE, val |-> NoYuv]
                 ELSE LET y_size  == width * height
                          uv_size == (width * height) \div 4
                          plane(d) ==
                              [i \in 1 .. uv_size |->
                                  source.pixels[
                                      <<Min(2 * ((i - 1) % uv_stride) + d, width - 1),
                                        Min(2 * ((i - 1) \div uv_stride) + d,
                                            height - 1)>>]]
                          data    == picture_y(source, y_size) \o plane(0) \o plane(1)
                          result  == Yuv420P(width, height, data)
                          e       == expected_yuv420p_size(result, oc)
                      IN  IF e.panic \/ ~e.val THEN [panic |-> TRUE, val |-> NoYuv]
                          ELSE [panic |-> FALSE, val |-> result]

\* imager-video's Yuv420P::from_image
video_Yuv420P_from_image(source, webp_ok, oc) ==
    LET r == image_convert_pixels_using_webp(source, webp_ok, oc)
    IN  IF r.panic THEN Outcome("panic", NoYuv) ELSE Outcome("Ok", r.val)

\* a file on disk: readable or not, and its bytes
File(r, b) == [readable |-> r, bytes |-> b]

Yuv420P_open_yuv(file, width, height, oc) ==
    IF ~file.readable THEN Outcome("panic", NoYuv)
    ELSE LET result == Yuv420P(width, height, file.bytes)
             e      == expected_yuv420p_size(result, oc)
         IN  IF e.panic \/ ~e.val THEN Outcome("panic", NoYuv)
             ELSE Outcome("Ok", result)

(***************************************************************************)
(* Inputs.                                                                 *)
(***************************************************************************)
Images ==
    UNION {{DynamicImage(w, h, px) : px \in [Coords(w, h) -> Byte]} :
              <<w, h>> \in {d \in (0 .. MaxDim) \X (0 .. MaxDim) :
                                d[1] * d[2] <= MaxPixels}}

\* sources with one side past the largest extent libwebp takes
OversizedImages ==
    {DynamicImage(WEBP_MAX_DIMENSION + 1, 1,
                  [p \in Coords(WEBP_MAX_DIMENSION + 1, 1) |-> 0]),
     DynamicImage(1, WEBP_MAX_DIMENSION + 1,
                  [p \in Coords(1, WEBP_MAX_DIMENSION + 1) |-> 0])}

Files == {File(FALSE, <<>>)} \cup {File(TRUE, b) : b \in ByteSeqs(MaxLen)}

(***************************************************************************)
(* Picture operations.  `ret` holds the call about to be made (op =        *)
(* "pending", with its arguments) and then the last call and what it       *)
(* returned.                                                               *)
(***************************************************************************)
\* the calls of function fn that can be made
PendingYuv(fn) ==
    CASE fn = "ensure_even_reslution" ->
            {[op |-> "pending", fn |-> fn, source |-> s] : s \in Images}
      [] fn = "from_image" ->
            {[op |-> "pending", fn |-> fn, source |-> s, webp_ok |-> k, oc |-> oc] :
                s \in Images, k \in BOOLEAN, oc \in BOOLEAN}
      [] fn = "video_from_image" ->
            {[op |-> "pending", fn |-> fn, source |-> s, webp_ok |-> k, oc |-> oc] :
                s \in Images, k \in BOOLEAN, oc \in BOOLEAN}
      [] fn = "convert_to_yuv_using_webp" ->
            {[op |-> "pending", fn |-> fn, source |-> s, webp_ok |-> k, oc |-> oc] :
                s \in Images \cup OversizedImages, k \in BOOLEAN, oc \in BOOLEAN}
      [] fn = "open_yuv" ->
            {[op |-> "pending", fn |-> fn, file |-> f, width |-> w, height |-> h,
              oc |-> oc] :
                f \in Files, w \in 0 .. MaxYuvDim, h \in 0 .. MaxYuvDim,
                oc \in BOOLEAN}

InitYuv ==
    /\ arcs = <<>>
    /\ handles = <<>>
    /\ \E fn \in {"ensure_even_reslution", "from_image", "video_from_image",
                   "convert_to_yuv_using_webp", "open_yuv"} :
          ret \in PendingYuv(fn)

Pending(fn) == ret.op = "pending" /\ ret.fn = fn

EnsureEven ==
    /\ Pending("ensure_even_reslution")
    /\ ret' = [op |-> "ensure_even_reslution", source |-> ret.source,
               val |-> ensure_even_reslution(ret.source)]
    /\ UNCHANGED <<arcs, handles>>

FromImage ==
    /\ Pending("from_image")
    /\ LET r == Yuv420P_from_image(ret.source, ret.webp_ok, ret.oc)
       IN  ret' = [op |-> "from_image", source |-> ret.source, oc |-> ret.oc,
                   outcome |-> r.outcome, val |-> r.val]
    /\ UNCHANGED <<arcs, handles>>

\* the same source goes through imager-video's from_image and through
\* imager's
VideoFromImage ==
    /\ Pending("video_from_image")
    /\ LET r == video_Yuv420P_from_image(ret.source, ret.webp_ok, ret.oc)
       IN  ret' = [op |-> "video_from_image", source |-> ret.source,
                   webp_ok |-> ret.webp_ok, oc |-> ret.oc,
                   outcome |-> r.outcome, val |-> r.val,
                   imager |-> Yuv420P_from_image(ret.source, ret.webp_ok, ret.oc)]
    /\ UNCHANGED <<arcs, handles>>

OpenYuv ==
    /\ Pending("open_yuv")
    /\ LET r == Yuv420P_open_yuv(ret.file, ret.width, ret.height, ret.oc)
       IN  ret' = [op |-> "open_yuv", file |-> ret.file, width |-> ret.width,
                   height |-> ret.height, oc |-> ret.oc,
                   outcome |-> r.outcome, val |-> r.val]
    /\ UNCHANGED <<arcs, handles>>

\* the picture the last call left in the caller's hands, if any
HasPicture ==
    \/ ret.op \in {"from_image", "open_yuv"} /\ ret.outcome = "Ok"
    \/ ret.op \in {"y", "u", "v"}

Picture == IF ret.op \in {"y", "u", "v"} THEN ret.self ELSE ret.val

\* the accessors run in the build that made the picture
CallY ==
    /\ HasPicture
    /\ ret' = [op |-> "y", self |-> Picture, oc |-> ret.oc,
               res |-> Yuv420P_y(Picture, ret.oc)]
    /\ UNCHANGED <<arcs, handles>>

CallU ==
    /\ HasPicture
    /\ ret' = [op |-> "u", self |-> Picture, oc |-> ret.oc,
               res |-> Yuv420P_u(Picture, ret.oc)]
    /\ UNCHANGED <<arcs, handles>>

CallV ==
    /\ HasPicture
    /\ ret' = [op |-> "v", self |-> Picture, oc |-> ret.oc,
               res |-> Yuv420P_v(Picture, ret.oc)]
    /\ UNCHANGED <<arcs, handles>>

(***************************************************************************)
(* convert_to_yuv_using_webp statement by statement.  `ret` holds the call *)
(* in progress: its position `pc`, the argument `src`, the local `source`  *)
(* that shadows it, and `allocs`, the pixel buffers created so far.        *)
(***************************************************************************)
\* the buffers ensure_even_reslution creates: source.clone(), and the image
\* crop() builds from it
ensure_even_reslution_allocs(source) ==
    IF (source.width % 2) # 0 \/ (source.height % 2) # 0
    THEN <<"clone", "crop">>
    ELSE <<"clone">>

\* let source = ensure_even_reslution(source);
ConvertEnsureEven ==
    /\ Pending("convert_to_yuv_using_webp")
    /\ ret' = [op |-> "convert_to_yuv_using_webp", pc |-> "check_dimension",
               src |-> ret.source, webp_ok |-> ret.webp_ok, oc |-> ret.oc,
               source |-> ensure_even_reslution(ret.source),
               allocs |-> ensure_even_reslution_allocs(ret.source),
               val |-> NoYuv]
    /\ UNCHANGED <<arcs, handles>>

Converting(pc) == ret.op = "convert_to_yuv_using_webp" /\ ret.pc = pc

\* assert!(width < WEBP_MAX_DIMENSION); assert!(height < WEBP_MAX_DIMENSION);
ConvertCheckDimension ==
    /\ Converting("check_dimension")
    /\ ret' = [ret EXCEPT !.pc =
                  IF /\ ret.source.width < WEBP_MAX_DIMENSION
                     /\ ret.source.height < WEBP_MAX_DIMENSION
                  THEN "import" ELSE "panicked"]
    /\ UNCHANGED <<arcs, handles>>

\* the RGB bytes are collected into pixel_data and imported into the picture
ConvertImport ==
    /\ Converting("import")
    /\ ret' = [ret EXCEPT
                  !.allocs = Append(ret.allocs, "pixel_data"),
                  !.pc = IF ret.webp_ok /\ ret.source.width > 0 /\ ret.source.height > 0
                         THEN "planes" ELSE "panicked"]
    /\ UNCHANGED <<arcs, handles>>

\* the picture is converted, its planes are copied and concatenated, and the
\* result is checked
ConvertPlanes ==
    /\ Converting("planes")
    /\ LET width   == ret.source.width
           height  == ret.source.height
           y_size  == width * height
           uv_size == (width * height) \div 4
           data    == picture_y(ret.source, y_size)
                        \o picture_u(ret.source, uv_size)
                        \o picture_v(ret.source, uv_size)
           result  == Yuv420P(width, height, data)
           e       == expected_yuv420p_size(result, ret.oc)
       IN  ret' = [ret EXCEPT
                     !.allocs = ret.allocs \o <<"y", "u", "v", "data">>,
                     !.pc  = IF e.panic \/ ~e.val THEN "panicked" ELSE "returned",
                     !.val = IF e.panic \/ ~e.val THEN NoYuv ELSE result]
    /\ UNCHANGED <<arcs, handles>>

NextYuv ==
    \/ EnsureEven
    \/ FromImage
    \/ VideoFromImage
    \/ OpenYuv
    \/ CallY
    \/ CallU
    \/ CallV
    \/ ConvertEnsureEven
    \/ ConvertCheckDimension
    \/ ConvertImport
    \/ ConvertPlanes

SpecYuv == InitYuv /\ [][NextYuv]_vars

(***************************************************************************)
(* Directories.  An entry of a directory listing has a name (a sequence of *)
(* characters; "?" stands for bytes that are not UTF-8), a kind and, for a *)
(* file, what is in it.                                                    *)
(***************************************************************************)
DirEntry(n, k, c) == [name |-> n, kind |-> k, content |-> c]

Digits == <<"0", "1", "2", "3", "4", "5", "6", "7", "8", "9">>

is_ascii_digit(ch) == \E d \in 1 .. 10 : Digits[d] = ch

DigitVal(ch) == (CHOOSE d \in 1 .. 10 : Digits[d] = ch) - 1

\* name.chars().take_while(char::is_ascii_digit)
RECURSIVE take_while_digit(_)
take_while_digit(name) ==
    IF name = <<>> \/ ~is_ascii_digit(Head(name)) THEN <<>>
    ELSE <<Head(name)>> \o take_while_digit(Tail(name))

\* str::parse::<usize> of a run of digits: Err (<<>>) for the empty string
RECURSIVE digits_value(_)
digits_value(ds) ==
    IF ds = <<>> THEN 0
    ELSE 10 * digits_value(SubSeq(ds, 1, Len(ds) - 1)) + DigitVal(ds[Len(ds)])

parse_usize(ds) == IF ds = <<>> THEN <<>> ELSE <<digits_value(ds)>>

\* the index of a path: the parsed leading digits of its file name
path_index(path) == parse_usize(take_while_digit(path.name))

\* a variant that orders the leading digits as text ("10" before "2")
insert_by_index_as_text(sorted, path) ==
    LET text(p) == take_while_digit(p.name)
        less(a, b) ==
            \/ \E k \in 1 .. Min(Len(a), Len(b)) :
                  /\ DigitVal(a[k]) < DigitVal(b[k])
                  /\ \A j \in 1 .. k - 1 : a[j] = b[j]
            \/ /\ Len(a) < Len(b)
               /\ \A j \in 1 .. Len(a) : a[j] = b[j]
        keep == {i \in 1 .. Len(sorted) : ~less(text(path), text(sorted[i]))}
    IN  [i \in 1 .. Len(sorted) + 1 |->
            IF i <= Cardinality(keep) THEN sorted[i]
            ELSE IF i = Cardinality(keep) + 1 THEN path
            ELSE sorted[i - 1]]

\* sorted_by(|(i, _), (j, _)| i.cmp(j)): a stable sort by index
insert_by_index(sorted, path) ==
    LET keep == {i \in 1 .. Len(sorted) :
                    path_index(sorted[i])[1] <= path_index(path)[1]}
    IN  [i \in 1 .. Len(sorted) + 1 |->
            IF i <= Cardinality(keep) THEN sorted[i]
            ELSE IF i = Cardinality(keep) + 1 THEN path
            ELSE sorted[i - 1]]

RECURSIVE sorted_by_index(_)
sorted_by_index(paths) ==
    IF paths = <<>> THEN <<>>
    ELSE Let(sorted_by_index(SubSeq(paths, 1, Len(paths) - 1)),
             LAMBDA sorted : insert_by_index(sorted, paths[Len(paths)]))

entry_ok(e) == e.kind # "unreadable_entry"

is_file(e) == e.kind = "file"

has_index(path) == path_index(path) # <<>>

\* dir = [exists, readable, entries, webp_ok]
open_dir_sorted_paths(dir) ==
    IF ~dir.readable THEN [panic |-> TRUE, val |-> <<>>]
    ELSE IF \E i \in 1 .. Len(dir.entries) : dir.entries[i].kind = "no_filetype"
         THEN [panic |-> TRUE, val |-> <<>>]
    ELSE IF \E i \in 1 .. Len(dir.entries) :
                /\ is_file(dir.entries[i])
                /\ \E j \in 1 .. Len(dir.entries[i].name) :
                       dir.entries[i].name[j] = "?"
         THEN [panic |-> TRUE, val |-> <<>>]
    ELSE [panic |-> FALSE,
          val   |-> sorted_by_index(
                        SelectSeq(SelectSeq(SelectSeq(dir.entries, entry_ok),
                                            is_file),
                                  has_index))]

\* the images the files of a directory hold
ImgA == DynamicImage(2, 2, [p \in Coords(2, 2) |-> 0])
ImgB == DynamicImage(3, 2, [p \in Coords(3, 2) |-> 0])
ImgC == DynamicImage(4, 2, [p \in Coords(4, 2) |-> 1])

Decodable(content) == content \in {"A", "B", "C"}

Decode(content) ==
    CASE content = "A" -> ImgA
      [] content = "B" -> ImgB
      [] content = "C" -> ImgC

Yuv420P_open_image(path, webp_ok, oc) ==
    IF ~Decodable(path.content) THEN Outcome("panic", NoYuv)
    ELSE Yuv420P_from_image(Decode(path.content), webp_ok, oc)

(***************************************************************************)
(* VideoBuffer { width, height, frames: Arc<Vec<Yuv420P>>, cursor }.       *)
(* `arcs` is the heap of reference-counted frame lists: arcs[a] =          *)
(* [data, strong]; a handle's `frames` field is the id of its list.        *)
(***************************************************************************)
VideoBuffer(w, h, a, c) == [width |-> w, height |-> h, frames |-> a, cursor |-> c]

NoFrames == <<>>

\* what a constructor returns: the frame list to put behind a new Arc and
\* the handle's other fields
VideoBuffer_singleton(frame) ==
    [width |-> frame.width, height |-> frame.height,
     frames |-> <<frame>>, cursor |-> 0]

VideoBuffer_from_image(source, webp_ok, oc) ==
    LET r == Yuv420P_from_image(source, webp_ok, oc)
    IN  IF r.outcome # "Ok" THEN [outcome |-> r.outcome, val |-> NoFrames]
        ELSE [outcome |-> "Ok", val |-> VideoBuffer_singleton(r.val)]

\* the frames collected from the sorted paths, each path opened and converted
collect_frames(paths, webp_ok, oc) ==
    [i \in 1 .. Len(paths) |-> Yuv420P_open_image(paths[i], webp_ok, oc)]

\* a variant without the assert that the vector is not empty
from_frames_unchecked(opened) ==
    IF \E i \in 1 .. Len(opened) : opened[i].outcome # "Ok"
    THEN [outcome |-> "panic", val |-> NoFrames]
    ELSE [outcome |-> "Ok",
          val |-> [width  |-> IF opened = <<>> THEN 0 ELSE opened[1].val.width,
                   height |-> IF opened = <<>> THEN 0 ELSE opened[1].val.height,
                   frames |-> [i \in 1 .. Len(opened) |-> opened[i].val],
                   cursor |-> 0]]

from_frames(opened) ==
    IF \E i \in 1 .. Len(opened) : opened[i].outcome # "Ok"
    THEN [outcome |-> "panic", val |-> NoFrames]
    ELSE IF opened = <<>> THEN [outcome |-> "panic", val |-> NoFrames]
    ELSE [outcome |-> "Ok",
          val |-> [width |-> opened[1].val.width, height |-> opened[1].val.height,
                   frames |-> [i \in 1 .. Len(opened) |-> opened[i].val],
                   cursor |-> 0]]

VideoBuffer_open_image_dir(dir, oc) ==
    IF ~dir.exists THEN [outcome |-> "panic", val |-> NoFrames]
    ELSE Let(open_dir_sorted_paths(dir),
             LAMBDA paths :
                IF paths.panic THEN [outcome |-> "panic", val |-> NoFrames]
                ELSE Let(collect_frames(paths.val, dir.webp_ok, oc), from_frames))

\* Arc::strong_count(&self.frames)
strong_count(self) == arcs[self.frames].strong

VideoBuffer_as_frames(self) == arcs[self.frames].data

\* [moved, panic, val]: `moved` when the list was taken out of the Arc
\* (Arc::try_unwrap succeeds only for the sole reference), else a copy
VideoBuffer_into_frames(self) ==
    LET refs == strong_count(self)
    IN  IF refs = 0
        THEN IF strong_count(self) = 1
             THEN [moved |-> TRUE, panic |-> FALSE, val |-> arcs[self.frames].data]
             ELSE [moved |-> FALSE, panic |-> TRUE, val |-> <<>>]
        ELSE [moved |-> FALSE, panic |-> FALSE, val |-> arcs[self.frames].data]

\* a variant that leaves the cursor where it is
VideoBuffer_next_stuck(self) ==
    LET fr == arcs[self.frames].data
    IN  IF self.cursor < Len(fr)
        THEN [self |-> self, val |-> <<fr[self.cursor + 1]>>]
        ELSE [self |-> self, val |-> <<>>]

\* Option<&Yuv420P> is <<>> (None) or <<frame>> (Some)
VideoBuffer_next(self) ==
    LET fr == arcs[self.frames].data
    IN  IF self.cursor < Len(fr)
        THEN [self |-> [self EXCEPT !.cursor = self.cursor + 1],
              val  |-> <<fr[self.cursor + 1]>>]
        ELSE [self |-> self, val |-> <<>>]

\* a variant that clamps the position to the end of the list
VideoBuffer_set_cursor_clamped(self, cursor_pos) ==
    [self EXCEPT !.cursor = Min(cursor_pos, Len(arcs[self.frames].data))]

VideoBuffer_set_cursor(self, cursor_pos) ==
    [self EXCEPT !.cursor = cursor_pos]

VideoBuffer_position(self) == self.cursor

\* a variant that rewinds the new handle
VideoBuffer_as_fresh_cursor_rewound(self) ==
    VideoBuffer(self.width, self.height, self.frames, 0)

\* frames: self.frames.clone() is the same Arc, one more strong reference
VideoBuffer_as_fresh_cursor(self) ==
    VideoBuffer(self.width, self.height, self.frames, self.cursor)

(***************************************************************************)
(* Inputs of the frame-buffer operations.                                  *)
(***************************************************************************)
DirEntries ==
    {DirEntry(n, "file", c) : n \in {<<"1">>, <<"2">>, <<"1", "0">>},
                              c \in {"A", "B", "C"}}
    \cup {DirEntry(<<"x">>, "file", "A"),
          DirEntry(<<"3">>, "dir", "none"),
          DirEntry(<<"4">>, "file", "corrupt"),
          DirEntry(<<"5">>, "unreadable_entry", "none"),
          DirEntry(<<"6">>, "no_filetype", "none"),
          DirEntry(<<"?">>, "file", "A")}

\* listings of at most n entries with different names, in any order
RECURSIVE Listings(_)
Listings(n) ==
    IF n = 0 THEN {<<>>}
    ELSE LET shorter == Listings(n - 1)
         IN  shorter \cup
             {Append(l, e) : <<l, e>> \in
                 {<<l, e>> \in shorter \X DirEntries :
                     /\ Len(l) = n - 1
                     /\ \A i \in 1 .. Len(l) : l[i].name # e.name}}

Dirs ==
    {[exists |-> FALSE, readable |-> FALSE, entries |-> <<>>, webp_ok |-> TRUE],
     [exists |-> TRUE, readable |-> FALSE, entries |-> <<>>, webp_ok |-> TRUE]}
    \cup
    {[exists |-> TRUE, readable |-> TRUE, entries |-> l, webp_ok |-> k] :
        l \in Listings(MaxFiles), k \in BOOLEAN}

FrameInputs ==
    {Yuv420P_from_image(i, TRUE, FALSE).val : i \in {ImgA, ImgB, ImgC}}

(***************************************************************************)
(* imager-video's VideoBuffer { width, height, frames: Vec<Yuv420P> } and  *)
(* its constructor from the bytes of a video.  The demultiplexer and       *)
(* decoder are a collaborator with the contract "bytes -> ordered sequence *)
(* of planar frames, or failure"; a video is named by what it holds.       *)
(***************************************************************************)
VideoSources == {"garbage", "no_frames", "one_frame", "two_frames", "two_sizes"}

demux_decode(source) ==
    LET frame(img) == Yuv420P_from_image(img, TRUE, FALSE).val
    IN  CASE source = "garbage"    -> [panic |-> TRUE, val |-> <<>>]
          [] source = "no_frames"  -> [panic |-> FALSE, val |-> <<>>]
          [] source = "one_frame"  -> [panic |-> FALSE, val |-> <<frame(ImgA)>>]
          [] source = "two_frames" -> [panic |-> FALSE,
                                       val |-> <<frame(ImgA), frame(ImgA)>>]
          [] source = "two_sizes"  -> [panic |-> FALSE,
                                       val |-> <<frame(ImgC), frame(ImgA)>>]

VideoBuffer_load_from_memory(source) ==
    Let(demux_decode(source),
        LAMBDA result :
            IF result.panic THEN [outcome |-> "panic", val |-> NoFrames]
            ELSE IF result.val = <<>> THEN [outcome |-> "panic", val |-> NoFrames]
            ELSE [outcome |-> "Ok",
                  val |-> [width  |-> result.val[1].width,
                           height |-> result.val[1].height,
                           frames |-> result.val]])

(***************************************************************************)
(* Frame-buffer operations.                                                *)
(***************************************************************************)
\* nothing constructed, no call made
NoCall == [op |-> "none"]

Init ==
    /\ arcs = <<>>
    /\ handles = <<>>
    /\ ret = NoCall

Live == DOMAIN handles

\* Arc::new(list) and the first handle on it
Construct(op, r) ==
    IF r.outcome = "Ok"
    THEN /\ arcs' = (1 :> [data |-> r.val.frames, strong |-> 1])
         /\ handles' = (1 :> VideoBuffer(r.val.width, r.val.height, 1, r.val.cursor))
         /\ ret' = [op |-> op, outcome |-> "Ok", handle |-> 1]
    ELSE /\ ret' = [op |-> op, outcome |-> r.outcome, handle |-> 0]
         /\ UNCHANGED <<arcs, handles>>

Singleton ==
    /\ ret = NoCall
    /\ \E frame \in FrameInputs :
        Construct("singleton", [outcome |-> "Ok", val |-> VideoBuffer_singleton(frame)])

FromImageBuffer ==
    /\ ret = NoCall
    /\ \E source \in {ImgA, ImgB, ImgC}, webp_ok \in BOOLEAN, oc \in BOOLEAN :
        Construct("from_image", VideoBuffer_from_image(source, webp_ok, oc))

OpenImageDir ==
    /\ ret = NoCall
    /\ \E dir \in Dirs, oc \in BOOLEAN :
        \E r \in {VideoBuffer_open_image_dir(dir, oc)} :
            IF r.outcome = "Ok"
            THEN /\ arcs' = (1 :> [data |-> r.val.frames, strong |-> 1])
                 /\ handles' = (1 :> VideoBuffer(r.val.width, r.val.height, 1,
                                                 r.val.cursor))
                 /\ ret' = [op |-> "open_image_dir", outcome |-> "Ok",
                            handle |-> 1, dir |-> dir]
            ELSE /\ ret' = [op |-> "open_image_dir", outcome |-> r.outcome,
                            handle |-> 0, dir |-> dir]
                 /\ UNCHANGED <<arcs, handles>>

\* imager-video's constructor: the value returned stays with the caller
LoadFromMemory ==
    /\ ret = NoCall
    /\ \E source \in VideoSources :
        \E r \in {VideoBuffer_load_from_memory(source)} :
            ret' = [op |-> "load_from_memory", source |-> source,
                    decoded |-> demux_decode(source),
                    outcome |-> r.outcome, val |-> r.val]
    /\ UNCHANGED <<arcs, handles>>

\* a variant that takes the frame it reads out of the list
NextFrame_consuming(h) ==
    /\ h \in Live
    /\ LET r  == VideoBuffer_next(handles[h])
           a  == handles[h].frames
           fr == arcs[a].data
           c  == handles[h].cursor
       IN  /\ arcs' = IF r.val = <<>> THEN arcs
                      ELSE [arcs EXCEPT ![a].data =
                              SubSeq(fr, 1, c) \o SubSeq(fr, c + 2, Len(fr))]
           /\ ret' = [op |-> "next", handle |-> h, val |-> r.val]
    /\ UNCHANGED handles

NextFrame(h) ==
    /\ h \in Live
    /\ LET r == VideoBuffer_next(handles[h])
       IN  /\ handles' = [handles EXCEPT ![h] = r.self]
           /\ ret' = [op |-> "next", handle |-> h, val |-> r.val]
    /\ UNCHANGED arcs

SetCursor(h, cursor_pos) ==
    /\ h \in Live
    /\ handles' = [handles EXCEPT ![h] = VideoBuffer_set_cursor(handles[h], cursor_pos)]
    /\ ret' = [op |-> "set_cursor", handle |-> h, pos |-> cursor_pos,
               before |-> handles[h].cursor]
    /\ UNCHANGED arcs

Position(h) ==
    /\ h \in Live
    /\ ret' = [op |-> "position", handle |-> h, val |-> VideoBuffer_position(handles[h])]
    /\ UNCHANGED <<arcs, handles>>

AsFrames(h) ==
    /\ h \in Live
    /\ ret' = [op |-> "as_frames", handle |-> h, val |-> VideoBuffer_as_frames(handles[h])]
    /\ UNCHANGED <<arcs, handles>>

AsFreshCursor(h) ==
    /\ h \in Live
    /\ Cardinality(Live) < MaxHandles
    /\ LET new   == CHOOSE n \in 1 .. MaxHandles : n \notin Live
           fresh == VideoBuffer_as_fresh_cursor(handles[h])
       IN  /\ handles' = [g \in Live \cup {new} |->
                             IF g = new THEN fresh ELSE handles[g]]
           /\ arcs' = [arcs EXCEPT ![fresh.frames].strong = @ + 1]
           /\ ret' = [op |-> "as_fresh_cursor", handle |-> h, new |-> new]

\* the handle goes away; the list goes with the last reference to it
Release(h) ==
    /\ handles' = [g \in Live \ {h} |-> handles[g]]
    /\ arcs' = LET a == handles[h].frames
               IN  IF arcs[a].strong = 1
                   THEN [b \in DOMAIN arcs \ {a} |-> arcs[b]]
                   ELSE [arcs EXCEPT ![a].strong = @ - 1]

IntoFrames(h) ==
    /\ h \in Live
    /\ LET r == VideoBuffer_into_frames(handles[h])
       IN  ret' = [op |-> "into_frames", handle |-> h,
                   refs |-> strong_count(handles[h]),
                   list |-> arcs[handles[h].frames].data,
                   moved |-> r.moved, panic |-> r.panic, val |-> r.val]
    /\ Release(h)

Drop(h) ==
    /\ h \in Live
    /\ ret' = [op |-> "drop", handle |-> h]
    /\ Release(h)

Next ==
    \/ Singleton
    \/ FromImageBuffer
    \/ OpenImageDir
    \/ LoadFromMemory
    \/ \E h \in 1 .. MaxHandles :
        \/ NextFrame(h)
        \/ \E cursor_pos \in 0 .. MaxPos : SetCursor(h, cursor_pos)
        \/ Position(h)
        \/ AsFrames(h)
        \/ AsFreshCursor(h)
        \/ IntoFrames(h)
        \/ Drop(h)

Spec == Init /\ [][Next]_vars

(***************************************************************************)
(* open_image_dir step by step.  The sorted paths go to a pool of workers  *)
(* (into_par_iter().map(..).collect()): every path is opened and converted *)
(* by some worker, in any order, and the indexed collect puts each result  *)
(* at the position of its path.  `ret` holds the call in progress: its     *)
(* position `pc`, the sorted paths, the slots of the collected vector and  *)
(* the order in which the workers finished.                                *)
(***************************************************************************)
PendingDir ==
    {[op |-> "pending", fn |-> "open_image_dir", dir |-> dir, oc |-> oc] :
        dir \in Dirs, oc \in BOOLEAN}

InitDir ==
    /\ arcs = <<>>
    /\ handles = <<>>
    /\ ret \in PendingDir

\* a variant that fills the vector in the order the workers finish
collect_write_in_completion_order(slots, i, r) ==
    LET k == CHOOSE k \in 1 .. Len(slots) :
                /\ slots[k] = <<>>
                /\ \A j \in 1 .. k - 1 : slots[j] # <<>>
    IN  [slots EXCEPT ![k] = <<r>>]

\* the indexed collect: the result of item i is written at position i
collect_write(slots, i, r) == [slots EXCEPT ![i] = <<r>>]

\* assert!(dir_path.exists()) and open_dir_sorted_paths(dir_path)
ListDir ==
    /\ Pending("open_image_dir")
    /\ \E paths \in {IF ret.dir.exists THEN open_dir_sorted_paths(ret.dir)
                     ELSE [panic |-> TRUE, val |-> <<>>]} :
          ret' = [op |-> "open_image_dir", dir |-> ret.dir, oc |-> ret.oc,
                  pc |-> IF paths.panic THEN "panicked" ELSE "par_iter",
                  paths |-> paths.val,
                  slots |-> [i \in 1 .. Len(paths.val) |-> <<>>],
                  order |-> <<>>, handle |-> 0]
    /\ UNCHANGED <<arcs, handles>>

InPool == ret.op = "open_image_dir" /\ ret.pc = "par_iter"

Finished(i) == \E k \in 1 .. Len(ret.order) : ret.order[k] = i

\* a worker opens and converts path i and hands the result to the collect
Worker(i) ==
    /\ InPool
    /\ i \in 1 .. Len(ret.paths)
    /\ ~Finished(i)
    /\ \E r \in {Yuv420P_open_image(ret.paths[i], ret.dir.webp_ok, ret.oc)} :
          ret' = [ret EXCEPT !.slots = collect_write(ret.slots, i, r),
                             !.order = Append(ret.order, i)]
    /\ UNCHANGED <<arcs, handles>>

\* all workers have joined: a panic of any of them is the caller's panic,
\* else the vector goes behind a new Arc
Collect ==
    /\ InPool
    /\ Len(ret.order) = Len(ret.paths)
    /\ \E r \in {from_frames([i \in 1 .. Len(ret.slots) |-> ret.slots[i][1]])} :
          IF r.outcome = "Ok"
          THEN /\ arcs' = (1 :> [data |-> r.val.frames, strong |-> 1])
               /\ handles' = (1 :> VideoBuffer(r.val.width, r.val.height, 1,
                                               r.val.cursor))
               /\ ret' = [ret EXCEPT !.pc = "returned", !.handle = 1]
          ELSE /\ ret' = [ret EXCEPT !.pc = "panicked"]
               /\ UNCHANGED <<arcs, handles>>

NextDir ==
    \/ ListDir
    \/ \E i \in 1 .. MaxFiles : Worker(i)
    \/ Collect

SpecDir == InitDir /\ [][NextDir]_vars

(***************************************************************************)
(* Properties of the frame-buffer operations (checked under Spec).         *)
(***************************************************************************)
\* the frame list behind handle h
Backing(h) == arcs[handles[h].frames].data

\* C1: with n frames and cursor c, next() returns frame c and moves the
\* cursor to c+1 when c < n, and returns nothing and leaves the cursor alone
\* when c >= n: the end is absorbing and there is no wraparound.
C1_NextReadsAndAdvances ==
    [][ret'.op = "next" =>
        LET h == ret'.handle
            c == handles[h].cursor
            n == Len(Backing(h))
        IN  IF c < n
            THEN ret'.val = <<Backing(h)[c + 1]>> /\ handles'[h].cursor = c + 1
            ELSE ret'.val = <<>> /\ handles'[h].cursor = c]_vars

\* next() found the cursor at the end of a list of several frames
C1_Witness ==
    /\ ret.op = "next"
    /\ ret.val = <<>>
    /\ Len(Backing(ret.handle)) >= 2
    /\ handles[ret.handle].cursor = Len(Backing(ret.handle))

\* C2: set_cursor(p) takes every position p, in range or not; right after it
\* position() is p and next() returns frame p if p < n and nothing otherwise.
C2_SetCursorAnyPosition ==
    ret.op = "set_cursor" =>
        LET self == handles[ret.handle]
            fr   == Backing(ret.handle)
        IN  /\ VideoBuffer_position(self) = ret.pos
            /\ VideoBuffer_next(self).val =
                   IF ret.pos < Len(fr) THEN <<fr[ret.pos + 1]>> ELSE <<>>

\* set_cursor moved a handle from the end to a position past the end
C2_Witness ==
    /\ ret.op = "set_cursor"
    /\ ret.before >= Len(Backing(ret.handle))
    /\ ret.pos > Len(Backing(ret.handle))
    /\ handles[ret.handle].cursor = ret.pos

\* C3: as_fresh_cursor returns a new handle on the same frame list at the
\* same cursor position; next() and set_cursor() on one handle leave every
\* other handle and the list as they were, and what next() reads depends only
\* on the list and the position.
C3_FreshCursorIndependent ==
    [][/\ ret'.op = "as_fresh_cursor" =>
            /\ ret'.new \notin Live
            /\ handles'[ret'.new].frames = handles[ret'.handle].frames
            /\ handles'[ret'.new].cursor = handles[ret'.handle].cursor
            /\ handles'[ret'.handle] = handles[ret'.handle]
            /\ arcs'[handles[ret'.handle].frames].data = Backing(ret'.handle)
       /\ ret'.op \in {"next", "set_cursor"} =>
            /\ arcs' = arcs
            /\ \A g \in Live \ {ret'.handle} :
                  g \in DOMAIN handles' /\ handles'[g] = handles[g]
            /\ \A g \in Live :
                  (/\ handles[g].frames = handles[ret'.handle].frames
                   /\ handles[g].cursor = handles[ret'.handle].cursor)
                      => VideoBuffer_next(handles[g]).val
                           = VideoBuffer_next(handles[ret'.handle]).val]_vars

\* two handles on one list stand at different positions after a next()
C3_Witness ==
    /\ ret.op = "next"
    /\ ret.val # <<>>
    /\ \E g \in Live \ {ret.handle} :
          /\ handles[g].frames = handles[ret.handle].frames
          /\ handles[g].cursor # handles[ret.handle].cursor
          /\ handles[g].cursor > 0

\* C4: into_frames takes the list out of the Arc without copying when the
\* handle is the sole reference and copies only when another handle remains;
\* either way it returns the list.
C4_IntoFramesMovesWhenSole ==
    ret.op = "into_frames" =>
        /\ ~ret.panic
        /\ ret.moved <=> (ret.refs = 1)
        /\ ret.val = ret.list

\* C5: every frame of a VideoBuffer has the VideoBuffer's width and height.
C5_FramesHaveBufferDimensions ==
    \A h \in Live :
        \A i \in 1 .. Len(Backing(h)) :
            /\ Backing(h)[i].width = handles[h].width
            /\ Backing(h)[i].height = handles[h].height

(***************************************************************************)
(* Properties of the picture operations (checked under SpecYuv).           *)
(***************************************************************************)
\* the byte count a width x height 4:2:0 picture has, in exact integers
ExactSize(w, h) == w * h + 2 * ((w * h) \div 4)

\* C6: every Yuv420P returned by from_image or open_yuv has
\* data.len() = width*height + 2*(width*height/4); a construction that would
\* violate this returns no value.
C6_SizeInvariant ==
    (ret.op \in {"from_image", "open_yuv"} /\ ret.outcome = "Ok")
        => Len(ret.val.data) = ExactSize(ret.val.width, ret.val.height)

\* C7: open_yuv fails when the byte count is not exactly width*height*3/2 and
\* otherwise succeeds with the given width and height and the input bytes.
C7_OpenYuvExactCount ==
    (ret.op = "open_yuv" /\ ret.file.readable)
        => IF Len(ret.file.bytes) # (ret.width * ret.height * 3) \div 2
           THEN ret.outcome # "Ok"
           ELSE /\ ret.outcome = "Ok"
                /\ ret.val = Yuv420P(ret.width, ret.height, ret.file.bytes)

\* C8: a byte buffer whose length does not match width and height is reported
\* by open_yuv as the Err value of its Result, not as a panic.
C8_MismatchIsErr ==
    (/\ ret.op = "open_yuv"
     /\ ret.file.readable
     /\ Len(ret.file.bytes) # ExactSize(ret.width, ret.height))
        => ret.outcome = "Err"

\* C9: on a picture whose expected_yuv420p_size() is true, y(), u() and v()
\* return, y = data[0, w*h), u = data[w*h, w*h + w*h/4), v = the rest, so the
\* three are disjoint, cover data and have lengths w*h, w*h/4, w*h/4.
SizeHolds(p, oc) ==
    LET e == expected_yuv420p_size(p, oc) IN ~e.panic /\ e.val

C9_PlanesPartition ==
    (ret.op \in {"y", "u", "v"} /\ SizeHolds(ret.self, ret.oc))
        => LET p == ret.self
               l == p.width * p.height
               c == l \div 4
           IN  /\ ~ret.res.panic
               /\ Len(p.data) = l + 2 * c
               /\ ret.op = "y" => ret.res.val = SubSeq(p.data, 1, l)
               /\ ret.op = "u" => ret.res.val = SubSeq(p.data, l + 1, l + c)
               /\ ret.op = "v" => ret.res.val = SubSeq(p.data, l + c + 1, l + 2 * c)

\* C10: ensure_even_reslution maps (w, h) to (w - w mod 2, h - h mod 2), never
\* larger than the source, and every retained pixel (x, y) is source pixel
\* (x, y); from_image returns a picture of those dimensions.
EvenDims(source, w, h) ==
    /\ w = source.width - (source.width % 2)
    /\ h = source.height - (source.height % 2)
    /\ w <= source.width
    /\ h <= source.height

C10_EvenCropFromOrigin ==
    /\ ret.op = "ensure_even_reslution"
        => /\ EvenDims(ret.source, ret.val.width, ret.val.height)
           /\ DOMAIN ret.val.pixels = Coords(ret.val.width, ret.val.height)
           /\ \A p \in Coords(ret.val.width, ret.val.height) :
                 ret.val.pixels[p] = ret.source.pixels[p]
    /\ (ret.op = "from_image" /\ ret.outcome = "Ok")
        => EvenDims(ret.source, ret.val.width, ret.val.height)

\* an odd-width, even-height source with two different columns was trimmed
C10_Witness ==
    /\ ret.op = "ensure_even_reslution"
    /\ ret.source.width = 3
    /\ ret.source.height = 2
    /\ ret.source.pixels[<<0, 0>>] # ret.source.pixels[<<2, 0>>]
    /\ ret.val.width = 2

(***************************************************************************)
(* Properties of directory ingestion (checked under SpecDir).              *)
(***************************************************************************)
\* a regular file whose name starts with a digit
Indexed(e) == e.kind = "file" /\ e.name # <<>> /\ is_ascii_digit(e.name[1])

\* the number the leading digits of a name spell
LeadingNumber(name) == digits_value(take_while_digit(name))

\* C11: open_dir_sorted_paths returns exactly the regular files of the
\* directory whose name starts with a run of digits, each once, in
\* non-decreasing order of the number the digits spell (2 before 10); files
\* with no leading digit and entries that are not files are not in the result.
C11_SortedIndexedFiles ==
    (ret.op = "open_image_dir" /\ ret.pc = "par_iter")
        => LET res     == ret.paths
               entries == ret.dir.entries
           IN  /\ \A i \in 1 .. Len(res) :
                     /\ Indexed(res[i])
                     /\ \E j \in 1 .. Len(entries) : entries[j] = res[i]
               /\ \A j \in 1 .. Len(entries) :
                     Indexed(entries[j])
                        => Cardinality({i \in 1 .. Len(res) : res[i] = entries[j]}) = 1
               /\ \A i \in 1 .. Len(res) : \A k \in i + 1 .. Len(res) :
                     LeadingNumber(res[i].name) <= LeadingNumber(res[k].name)

\* a directory that lists file 10 before file 2 came back as 2, 10
C11_Witness ==
    /\ ret.op = "open_image_dir"
    /\ ret.pc = "par_iter"
    /\ Len(ret.dir.entries) = 2
    /\ ret.dir.entries[1].name = <<"1", "0">>
    /\ ret.dir.entries[2].name = <<"2">>
    /\ Len(ret.paths) = 2
    /\ ret.paths[1] = ret.dir.entries[2]
    /\ ret.paths[2] = ret.dir.entries[1]

\* C12: whatever the order in which the workers of open_image_dir finish,
\* every collected result sits at the position of its path, and the i-th
\* frame of the VideoBuffer returned is the conversion of the i-th path of
\* the sorted listing.
C12_FramesFollowSortedPaths ==
    (ret.op = "open_image_dir" /\ ret.pc \in {"par_iter", "returned"})
        => /\ \A i \in 1 .. Len(ret.paths) :
                 Finished(i)
                    => ret.slots[i] =
                          <<Yuv420P_open_image(ret.paths[i], ret.dir.webp_ok, ret.oc)>>
           /\ ret.pc = "returned"
                 => /\ Len(Backing(ret.handle)) = Len(ret.paths)
                    /\ \A i \in 1 .. Len(ret.paths) :
                          Backing(ret.handle)[i] =
                              Yuv420P_open_image(ret.paths[i], ret.dir.webp_ok,
                                                 ret.oc).val

\* the worker of the second path finished first, the two frames differ, and
\* the VideoBuffer was returned
C12_Witness ==
    /\ ret.op = "open_image_dir"
    /\ ret.pc = "returned"
    /\ ret.order = <<2, 1>>
    /\ Backing(ret.handle)[1] # Backing(ret.handle)[2]

(***************************************************************************)
(* Properties of the constructors (checked under Spec).                    *)
(***************************************************************************)
\* something of the directory cannot be read or decoded: the directory
\* itself, one of its entries, or one of its indexed files
Unreadable(dir) ==
    \/ ~dir.exists
    \/ ~dir.readable
    \/ \E i \in 1 .. Len(dir.entries) :
          \/ dir.entries[i].kind \in {"unreadable_entry", "no_filetype"}
          \/ Indexed(dir.entries[i]) /\ ~Decodable(dir.entries[i].content)

\* C13: open_image_dir is all-or-nothing: a VideoBuffer it returns has one
\* frame for every indexed regular file of the directory, and when the
\* directory, one of its entries or one of its indexed files cannot be read
\* or decoded the call fails.
C13_AllOrNothing ==
    ret.op = "open_image_dir"
        => /\ ret.outcome = "Ok"
                => Len(Backing(ret.handle)) =
                      Cardinality({i \in 1 .. Len(ret.dir.entries) :
                                      Indexed(ret.dir.entries[i])})
           /\ Unreadable(ret.dir) => ret.outcome # "Ok"

\* C14: a VideoBuffer that was constructed holds at least one frame:
\* singleton gives one frame and cursor 0, open_image_dir fails for a
\* directory without indexed file, and load_from_memory fails when the
\* decoder returns no frame.
C14_NeverEmpty ==
    /\ \A h \in Live : Len(Backing(h)) >= 1
    /\ ret.op = "singleton"
          => /\ ret.outcome = "Ok"
             /\ Len(Backing(ret.handle)) = 1
             /\ handles[ret.handle].cursor = 0
    /\ ret.op = "open_image_dir"
          => /\ ret.outcome = "Ok" => Len(Backing(ret.handle)) >= 1
             /\ (\A i \in 1 .. Len(ret.dir.entries) : ~Indexed(ret.dir.entries[i]))
                   => ret.outcome # "Ok"
    /\ ret.op = "load_from_memory"
          => /\ ret.outcome = "Ok" => Len(ret.val.frames) >= 1
             /\ (~ret.decoded.panic /\ ret.decoded.val = <<>>)
                   => ret.outcome # "Ok"

\* the decoder returned no frame and load_from_memory failed
C14_Witness ==
    /\ ret.op = "load_from_memory"
    /\ ~ret.decoded.panic
    /\ ret.decoded.val = <<>>
    /\ ret.outcome = "panic"

(***************************************************************************)
(* Properties of the conversion (checked under SpecYuv).                   *)
(***************************************************************************)
\* a side of the source is past the largest extent
Oversized(source) ==
    source.width > WEBP_MAX_DIMENSION \/ source.height > WEBP_MAX_DIMENSION

\* C15: the conversion of a source whose width or height exceeds the largest
\* supported extent never returns, and at no point of it has a pixel buffer
\* been created: no clone, no crop, no pixel-data vector.
C15_RejectBeforeAllocation ==
    (ret.op = "convert_to_yuv_using_webp" /\ Oversized(ret.src))
        => /\ ret.pc # "returned"
           /\ ret.allocs = <<>>

(***************************************************************************)
(* Properties of the shared frame list (checked under Spec).               *)
(***************************************************************************)
\* C16: next, set_cursor, position, as_frames and as_fresh_cursor, on any
\* handle, leave every frame list as it was (length, order, bytes) and every
\* handle's width, height and list; the only cursor that can change is the
\* cursor of the handle the operation was called on.
C16_FrameListImmutable ==
    [][ret'.op \in {"next", "set_cursor", "position", "as_frames", "as_fresh_cursor"}
       => /\ DOMAIN arcs' = DOMAIN arcs
          /\ \A a \in DOMAIN arcs : arcs'[a].data = arcs[a].data
          /\ \A g \in Live :
                /\ g \in DOMAIN handles'
                /\ handles'[g].width = handles[g].width
                /\ handles'[g].height = handles[g].height
                /\ handles'[g].frames = handles[g].frames
                /\ g # ret'.handle => handles'[g].cursor = handles[g].cursor]_vars

\* as_frames showed the whole list of several frames through a handle that
\* had read past the first frame, while another handle shares the list
C16_Witness ==
    /\ ret.op = "as_frames"
    /\ Len(ret.val) >= 2
    /\ ret.val = Backing(ret.handle)
    /\ handles[ret.handle].cursor >= 1
    /\ \E g \in Live \ {ret.handle} : handles[g].frames = handles[ret.handle].frames

\* C17: for every packed image that imager's from_image turns into a planar
\* image, imager-video's from_image returns a planar image of the same width
\* and height: the source's, with an odd side trimmed to even.
C17_VideoSameDimensions ==
    (ret.op = "video_from_image" /\ ret.imager.outcome = "Ok")
        => /\ ret.outcome = "Ok"
           /\ ret.val.width = ret.imager.val.width
           /\ ret.val.height = ret.imager.val.height
           /\ EvenDims(ret.source, ret.val.width, ret.val.height)

====
